---- MODULE Spec2Model ----
(***************************************************************************)
(* Model of shutters.py (ORelio/Yokis-EnOcean): the public operate() call, *)
(* the motion thread _move_to_state_percent, the per-shutter locks, the    *)
(* thread tokens derived from the wall clock and the global command lock.  *)
(*                                                                         *)
(* Time is in milliseconds.  Python's None is the integer None (-1).       *)
(* Every operate() call has an id i in Calls; the motion thread started by *)
(* call i is "task i".                                                     *)
(***************************************************************************)
EXTENDS Integers, Sequences, FiniteSets, TLC

(* ------------------------------ bounds --------------------------------- *)
\* number of operate() calls in one behaviour
MaxOps == 2
\* the clock may tick by itself (1 ms) while it reads less than MaxTime
MaxTime == 2

(* --------------------------- configuration ----------------------------- *)
None == -1

FINE == "fine"
BASIC == "basic"
\* _shutters: the configured aliases
Shutters == {FINE, BASIC}
\* an alias that is not configured
UnknownShutter == "nope"
\* shutters that have close/offset/open delays
FineTunable == {FINE}

OPEN == "OPEN"
CLOSE == "CLOSE"
STOP == "STOP"
HALF == "HALF"
ShutterState == {OPEN, CLOSE, STOP, HALF}
\* the states that have a hardware command ('on', 'off', 'pause')
shutter_state_to_command == {OPEN, CLOSE, STOP}

SEND_COMMAND_DELAY == 100
START_MOVING_DELAY == 500

\* config/shutters.ini of the fine-tunable shutter, in milliseconds
shutter_delay_close == [s \in FineTunable |-> 19800]
shutter_closed_offset == [s \in FineTunable |-> 2000]
shutter_delay_open == [s \in FineTunable |-> 4950]
shutter_halfway == [s \in Shutters |-> 50]

\* the operate() calls of a behaviour: <<shutter, state, target_half_state>>
OperateInputs ==
    {<<FINE, OPEN, None>>, <<FINE, STOP, None>>, <<FINE, HALF, 1>>,
     <<BASIC, OPEN, None>>, <<BASIC, HALF, None>>,
     <<UnknownShutter, OPEN, None>>}

\* the calls of SpecBurst, which all start a motion thread
BurstInputs == {<<FINE, OPEN, None>>, <<FINE, HALF, 1>>}

\* the calls of SpecMotion: every target, two of them out of range
MotionTargets == (0..100) \cup {-3, 120}
MotionInputs ==
    {<<FINE, OPEN, None>>, <<FINE, CLOSE, None>>, <<FINE, STOP, None>>,
     <<FINE, HALF, None>>} \cup {<<FINE, HALF, t>> : t \in MotionTargets}
\* the calls of SpecBasic: every state on the basic shutter
BasicInputs == {<<BASIC, st, None>> : st \in ShutterState}
\* the percents the shutter rests at when SpecMotion starts
StartPercents == {0, 1, 50, 99, 100}
\* the percents the shutter rests at when SpecSupersede starts
SupersedeStarts == {99, None}

Calls == 1..(MaxOps + 1)

(* ------------------------------- state --------------------------------- *)
VARIABLES
    now,        \* round(time.time() * 1000)
    tokens,     \* _shutter_thread_tokens (None: no entry)
    state,      \* _shutter_state (None: no entry)
    percent,    \* _shutter_state_percent (None: no entry)
    lock,       \* _shutter_locks: holder of each shutter's lock
    cmdLock,    \* _command_lock: its holder
    cpc,        \* position of each operate() call
    csh, cst, ctg, \* arguments of each operate() call
    ret,        \* outcome of each operate() call
    tpc,        \* position of each motion thread
    tok,        \* thread_token of call / task i
    des,        \* desired_state_percent of task i (after clamping)
    cur,        \* local current_state of task i
    sentBy,     \* history: commands call i and task i passed to the channel
    writes,     \* history: number of percent writes of task i
    lastCmd,    \* history: last command passed to the channel per shutter
    lastOp,     \* history: the call that installed the current token
    pre,        \* history: what call i found when it took the lock
    first,      \* history: the percent task i read when it started
    stale,      \* history: task i was in a wait when a later call installed a token
    waits,      \* history: the bootstrap sleeps and the step sleeps task i has ended
    ev,         \* an EventHandler: its _callbacks, the threads it started, its calls
    conf        \* a section of config/shutters.ini and what loading it gave

vars == <<now, tokens, state, percent, lock, cmdLock, cpc, csh, cst, ctg, ret,
          tpc, tok, des, cur, sentBy, writes, lastCmd, lastOp, pre, first, stale,
          waits, ev, conf>>

Free == <<"free", 0>>
OpHolder(i) == <<"op", i>>
TaskHolder(i) == <<"task", i>>

T(ph, st) == <<ph, st>>
NoTask == T("none", "")
Start == T("start", "")
Done == T("done", "")
Dead == T("dead", "")
Sleeps == {T("boot", "sleep"), T("first", "sleep"), T("loop", "sleep")}
SendPhases == {"boot", "same", "dir", "stop"}
Alive(i) == tpc[i] \notin {NoTask, Done, Dead}
\* task i has not read the percent yet
NotRead == -2
\* call i has not taken the lock yet
NoPre == [state |-> "NONE", percent |-> None, last |-> 0, alive |-> {},
          acts |-> [j \in Calls |-> 0]]
\* the commands task i has passed to the channel plus its percent writes
Actions(i) == Len(sentBy[i]) + writes[i]

(* --------------------------- pure functions ---------------------------- *)
\* variant of Clamp: the value is taken as it is
Clamp_AsGiven(p) == p

\* lines 136-139, 181-184 and 207-210: a percent is brought into 0..100
Clamp(p) == IF p < 0 THEN 0 ELSE IF p > 100 THEN 100 ELSE p

get_full_length_delay(s, st) ==
    IF st = OPEN THEN shutter_delay_open[s] ELSE shutter_delay_close[s]

\* lines 103-108: the halfway percent stored by loading (line 79); the loaded
\* section of the model is the one of the fine-tunable shutter
get_halfway_percent(s) ==
    IF s \in FineTunable /\ conf.res.status = "loaded"
    THEN conf.res.halfway
    ELSE shutter_halfway[s]

get_closed_offset_delay(s) == shutter_closed_offset[s]

get_current_state(s) == IF state[s] = "NONE" THEN STOP ELSE state[s]

get_current_state_percent(s) ==
    IF percent[s] = None THEN None ELSE Clamp(percent[s])

IsFineTunable(s) == s \in FineTunable

\* operate, lines 295-301
DesiredPercent(s, st, tg) ==
    IF st = CLOSE THEN 100
    ELSE IF st = OPEN THEN 0
    ELSE IF st = HALF /\ tg = None THEN get_halfway_percent(s)
    ELSE tg

\* variant of NewToken: the time-derived value is installed as it is
NewToken_NoTieBreak(s, t) == t

\* operate, lines 285-287
NewToken(s, t) ==
    IF (IF tokens[s] = None THEN 0 ELSE tokens[s]) = t THEN t - 1 ELSE t

\* _update_state_percent_from_thread, lines 189-196
StateOfPercent(s, p) ==
    IF p <= 0 THEN OPEN
    ELSE IF p >= 100 THEN CLOSE
    ELSE IF p = get_halfway_percent(s) THEN HALF
    ELSE STOP

\* _move_to_state_percent, lines 216-217
InitialState(d) == IF d <= 50 THEN OPEN ELSE CLOSE
InitialPercent(d) == IF d <= 50 THEN 0 ELSE 100

\* variant of Direction: OPEN and CLOSE are exchanged
Direction_Reversed(c, d) == IF d < c THEN CLOSE ELSE OPEN

\* _move_to_state_percent, lines 237-239
Direction(c, d) == IF d < c THEN OPEN ELSE CLOSE
\* variant of Increment: the local percent does not advance
Increment_Still(c, d) == 0

\* _move_to_state_percent, line 239
Increment(c, d) == IF Direction(c, d) = OPEN THEN -1 ELSE 1
OnePercentDelay(s, c, d) == get_full_length_delay(s, Direction(c, d)) \div 99

\* variant of CrossesOffset: every step is timed as a uniform step
CrossesOffset_Never(c, inc) == FALSE

\* the step from c in direction inc crosses between 99 and 100
CrossesOffset(c, inc) == (c = 100 /\ inc = -1) \/ (c = 99 /\ inc = 1)

Max0(x) == IF x > 0 THEN x ELSE 0

\* _move_to_state_percent, lines 241-247
FirstPercentDelay(s, c, d) ==
    Max0((IF CrossesOffset(c, Increment(c, d))
          THEN get_closed_offset_delay(s)
          ELSE OnePercentDelay(s, c, d)) - SEND_COMMAND_DELAY)
    + START_MOVING_DELAY

\* _move_to_state_percent, lines 257-264
StepDelay(s, c, d) ==
    IF CrossesOffset(c, Increment(c, d))
    THEN get_closed_offset_delay(s)
    ELSE OnePercentDelay(s, c, d)

\* _move_to_state_percent, line 220
InitialDelay(s, d) ==
    get_full_length_delay(s, InitialState(d)) + get_closed_offset_delay(s) + 1000

(* ------------------------ configuration loading ------------------------ *)
\* Python truth value of an optional number: None and 0 are false
Truthy(x) == x # None /\ x # 0

\* what loading has not produced yet
Pending == [status |-> "pending", delay_close |-> None, closed_offset |-> None,
            delay_open |-> None, halfway |-> None]

\* lines 59-64: loading stops with ValueError
LoadError == [status |-> "error", delay_close |-> None, closed_offset |-> None,
              delay_open |-> None, halfway |-> None]

\* lines 62-63: the test that rejects a section; the list it searches for
\* None holds the open delay twice and the close delay not at all
RejectsSection(c) ==
    /\ Truthy(c.close) \/ Truthy(c.offset) \/ Truthy(c.open)
    /\ None \in {c.open, c.offset, c.open}

\* lines 75-78: the halfway percent is brought into 0..99
ClampHalfway(h) == IF h < 0 THEN 0 ELSE IF h > 99 THEN 99 ELSE h

\* lines 55-79: what loading one section c of the configuration file stores
\* for its alias (None: no entry in the dictionary)
LoadSection(c) ==
    IF RejectsSection(c) THEN LoadError
    ELSE [status |-> "loaded",
          delay_close |-> IF Truthy(c.close) THEN Max0(c.close) ELSE None,
          closed_offset |-> IF Truthy(c.close) THEN Max0(c.offset) ELSE None,
          delay_open |-> IF Truthy(c.close) THEN Max0(c.open) ELSE None,
          halfway |-> ClampHalfway(IF c.halfway = None THEN 50 ELSE c.halfway)]

\* the section of the fine-tunable shutter of the model
FineSection ==
    [close |-> shutter_delay_close[FINE], offset |-> shutter_closed_offset[FINE],
     open |-> shutter_delay_open[FINE], halfway |-> None]

\* the sections SpecLoad loads: each delay absent, negative, zero or positive
DelayValues == {None, -5000, 0, 2000}
HalfwayValues == {None, -7, 50, 120}
Sections ==
    [close : DelayValues, offset : DelayValues, open : DelayValues,
     halfway : HalfwayValues]

(* --------------------------- the event handler ------------------------ *)
\* the callables the callers pass to an EventHandler
Callbacks == {"cb1", "cb2"}
NoCallback == "none"

\* the elements of a list
Range(q) == {q[k] : k \in 1..Len(q)}

\* the number of times x occurs in the list q
RECURSIVE Count(_, _)
Count(q, x) ==
    IF q = <<>> THEN 0
    ELSE (IF Head(q) = x THEN 1 ELSE 0) + Count(Tail(q), x)

\* EventHandler.__init__, lines 20-24: no callback is registered; the history
\* fields hold the calls made (n), the last call and its outcome, the
\* subscribe calls per callback since its last unsubscribe call (subs), the
\* threads the last dispatch started per callback (started) and the started
\* threads that have not run yet (pending)
NoEvents ==
    [callbacks |-> <<>>,
     n |-> 0,
     last |-> [op |-> "none", cb |-> NoCallback, outcome |-> "none"],
     subs |-> [cb \in Callbacks |-> 0],
     started |-> [cb \in Callbacks |-> 0],
     pending |-> [cb \in Callbacks |-> 0]]

(* ------------------------------- Init ---------------------------------- *)
\* the state of the module's dictionaries and locks after loading
InitRuntime ==
    /\ now = 1
    /\ tokens = [s \in Shutters |-> None]
    /\ state = [s \in Shutters |-> "NONE"]
    /\ percent = [s \in Shutters |-> None]
    /\ lock = [s \in Shutters |-> Free]
    /\ cmdLock = Free
    /\ cpc = [i \in Calls |-> "idle"]
    /\ csh = [i \in Calls |-> UnknownShutter]
    /\ cst = [i \in Calls |-> STOP]
    /\ ctg = [i \in Calls |-> None]
    /\ ret = [i \in Calls |-> "none"]
    /\ tpc = [i \in Calls |-> NoTask]
    /\ tok = [i \in Calls |-> None]
    /\ des = [i \in Calls |-> None]
    /\ cur = [i \in Calls |-> None]
    /\ sentBy = [i \in Calls |-> <<>>]
    /\ writes = [i \in Calls |-> 0]
    /\ lastCmd = [s \in Shutters |-> "NONE"]
    /\ lastOp = [s \in Shutters |-> 0]
    /\ pre = [i \in Calls |-> NoPre]
    /\ first = [i \in Calls |-> NotRead]
    /\ stale = [i \in Calls |-> FALSE]
    /\ waits = [i \in Calls |-> [boot |-> 0, step |-> 0]]
    /\ ev = NoEvents

Init ==
    /\ InitRuntime
    /\ conf = [raw |-> FineSection, res |-> LoadSection(FineSection)]

\* lines 52-79: one section of the configuration file is loaded
LoadConfig ==
    /\ conf.res = Pending
    /\ conf' = [conf EXCEPT !.res = LoadSection(conf.raw)]
    /\ UNCHANGED <<ev, waits, now, tokens, state, percent, lock, cmdLock, cpc, csh, cst, ctg,
                   ret, tpc, tok, des, cur, sentBy, writes, lastCmd, lastOp, pre,
                   first, stale>>

(* ------------------------------ the clock ------------------------------ *)
\* the wall clock advances between two statements of any thread
Tick ==
    /\ now < MaxTime
    /\ now' = now + 1
    /\ UNCHANGED <<ev, waits, conf, tokens, state, percent, lock, cmdLock, cpc, csh, cst, ctg, ret,
                   tpc, tok, des, cur, sentBy, writes, lastCmd, lastOp, pre, first, stale>>

(* ------------------------------ operate -------------------------------- *)
\* variant of IsSynchronous: a basic shutter sends every state, HALF included
IsSynchronous_BasicSendsAll(s, st) ==
    IF IsFineTunable(s) THEN st = STOP ELSE TRUE

\* operate, lines 302 and 312-315: the call sends its command itself
IsSynchronous(s, st) ==
    IF IsFineTunable(s) THEN st = STOP ELSE st # HALF

\* operate, lines 306-308: the call starts a motion thread
StartsThread(s, st) == IsFineTunable(s) /\ st # STOP

\* variant of OperateUnknown: the call returns False instead of raising
OperateUnknown_ReturnsFalse(i, s, st, tg) ==
    /\ cpc[i] = "idle"
    /\ \A j \in 1..(i - 1) : cpc[j] # "idle"
    /\ s \notin Shutters
    /\ csh' = [csh EXCEPT ![i] = s]
    /\ cst' = [cst EXCEPT ![i] = st]
    /\ ctg' = [ctg EXCEPT ![i] = tg]
    /\ cpc' = [cpc EXCEPT ![i] = "returned"]
    /\ ret' = [ret EXCEPT ![i] = "FALSE"]
    /\ UNCHANGED <<ev, waits, conf, now, tokens, state, percent, lock, cmdLock, tpc, tok, des, cur,
                   sentBy, writes, lastCmd, lastOp, pre, first, stale>>

\* operate, lines 280-282: an alias that is not configured raises ValueError
OperateUnknown(i, s, st, tg) ==
    /\ cpc[i] = "idle"
    /\ \A j \in 1..(i - 1) : cpc[j] # "idle"
    /\ s \notin Shutters
    /\ csh' = [csh EXCEPT ![i] = s]
    /\ cst' = [cst EXCEPT ![i] = st]
    /\ ctg' = [ctg EXCEPT ![i] = tg]
    /\ cpc' = [cpc EXCEPT ![i] = "returned"]
    /\ ret' = [ret EXCEPT ![i] = "ValueError"]
    /\ UNCHANGED <<ev, waits, conf, now, tokens, state, percent, lock, cmdLock, tpc, tok, des, cur,
                   sentBy, writes, lastCmd, lastOp, pre, first, stale>>

\* operate, lines 284-308 and 310-317: take the shutter's lock, install the
\* new token, then write the state (synchronous command) or start the thread
Operate(i, s, st, tg) ==
    LET k == NewToken(s, now)
    IN  /\ cpc[i] = "idle"
        /\ \A j \in 1..(i - 1) : cpc[j] # "idle"
        /\ s \in Shutters
        /\ lock[s] = Free
        /\ csh' = [csh EXCEPT ![i] = s]
        /\ cst' = [cst EXCEPT ![i] = st]
        /\ ctg' = [ctg EXCEPT ![i] = tg]
        /\ lock' = [lock EXCEPT ![s] = OpHolder(i)]
        /\ tokens' = [tokens EXCEPT ![s] = k]
        /\ tok' = [tok EXCEPT ![i] = k]
        /\ lastOp' = [lastOp EXCEPT ![s] = i]
        /\ pre' = [pre EXCEPT ![i] =
                      [state |-> state[s], percent |-> percent[s], last |-> lastOp[s],
                       alive |-> {j \in Calls : csh[j] = s /\ Alive(j)},
                       acts |-> [j \in Calls |-> Actions(j)]]]
        /\ stale' = [j \in Calls |->
                        stale[j] \/ (j # i /\ csh[j] = s /\ tpc[j] \in Sleeps)]
        /\ IF IsSynchronous(s, st)
           THEN /\ state' = [state EXCEPT ![s] = st]
                /\ cpc' = [cpc EXCEPT ![i] = "sync_cmd"]
                /\ UNCHANGED <<tpc, des>>
           ELSE IF StartsThread(s, st)
           THEN /\ tpc' = [tpc EXCEPT ![i] = Start]
                /\ des' = [des EXCEPT ![i] = Clamp(DesiredPercent(s, st, tg))]
                /\ cpc' = [cpc EXCEPT ![i] = "exit"]
                /\ state' = state
           ELSE /\ cpc' = [cpc EXCEPT ![i] = "exit"]
                /\ UNCHANGED <<state, tpc, des>>
        /\ UNCHANGED <<ev, waits, conf, now, percent, cmdLock, ret, cur, sentBy, writes, lastCmd,
                       first>>

\* what subprocess.run (lines 157-160) can do: return (the exit status of the
\* command is not looked at) or raise OSError
ChannelOutcomes == {"ok", "raise"}

\* variant of OperateCmd: the channel is invoked without the command lock
OperateCmd_NoCommandLock(i, out) ==
    LET s == csh[i]
    IN  /\ cpc[i] = "sync_cmd"
        /\ sentBy' = [sentBy EXCEPT ![i] = Append(@, cst[i])]
        /\ lastCmd' = [lastCmd EXCEPT ![s] = cst[i]]
        /\ IF out = "raise"
           THEN /\ lock' = [lock EXCEPT ![s] = Free]
                /\ cpc' = [cpc EXCEPT ![i] = "returned"]
                /\ ret' = [ret EXCEPT ![i] = "OSError"]
                /\ cmdLock' = cmdLock
           ELSE /\ cmdLock' = OpHolder(i)
                /\ cpc' = [cpc EXCEPT ![i] = "sync_spacing"]
                /\ UNCHANGED <<lock, ret>>
        /\ UNCHANGED <<ev, waits, conf, now, tokens, state, percent, csh, cst, ctg, tpc, tok, des,
                       cur, writes, lastOp, pre, first, stale>>

\* _send_command, lines 156-160, called by operate: take the command lock
\* and invoke the actuator channel
OperateCmd(i, out) ==
    LET s == csh[i]
    IN  /\ cpc[i] = "sync_cmd"
        /\ cmdLock = Free
        /\ sentBy' = [sentBy EXCEPT ![i] = Append(@, cst[i])]
        /\ lastCmd' = [lastCmd EXCEPT ![s] = cst[i]]
        /\ IF out = "raise"
           THEN \* the exception leaves both with-blocks and operate
                /\ lock' = [lock EXCEPT ![s] = Free]
                /\ cpc' = [cpc EXCEPT ![i] = "returned"]
                /\ ret' = [ret EXCEPT ![i] = "OSError"]
                /\ cmdLock' = cmdLock
           ELSE /\ cmdLock' = OpHolder(i)
                /\ cpc' = [cpc EXCEPT ![i] = "sync_spacing"]
                /\ UNCHANGED <<lock, ret>>
        /\ UNCHANGED <<ev, waits, conf, now, tokens, state, percent, csh, cst, ctg, tpc, tok, des,
                       cur, writes, lastOp, pre, first, stale>>

\* variant of CommandLockAfterSend: the command lock stays with its holder h
CommandLockAfterSend_Kept(h) == h

\* _send_command, lines 156-161: the holder of the command lock once the
\* with-block of its holder h has ended
CommandLockAfterSend(h) == Free

\* _send_command, line 161: the spacing sleep ends, the command lock is released
OperateSpacing(i) ==
    /\ cpc[i] = "sync_spacing"
    /\ cmdLock' = CommandLockAfterSend(cmdLock)
    /\ now' = now + SEND_COMMAND_DELAY
    /\ cpc' = [cpc EXCEPT ![i] = "exit"]
    /\ UNCHANGED <<ev, waits, conf, tokens, state, percent, lock, csh, cst, ctg, ret, tpc, tok, des,
                   cur, sentBy, writes, lastCmd, lastOp, pre, first, stale>>

\* operate, lines 314 and 319: the value returned
ReturnValue(s, st) ==
    IF ~IsFineTunable(s) /\ st = HALF THEN "FALSE" ELSE "TRUE"

\* variant of MayReturn: the call joins its thread before it returns
MayReturn_JoinsThread(i) == cpc[i] = "exit" /\ ~Alive(i)

\* operate, lines 314 and 319: when the call may leave the with-block
MayReturn(i) == cpc[i] = "exit"

\* operate, lines 314 and 319: leave the with-block (release the shutter's
\* lock) and return
OperateReturn(i) ==
    /\ MayReturn(i)
    /\ lock' = [lock EXCEPT ![csh[i]] = Free]
    /\ cpc' = [cpc EXCEPT ![i] = "returned"]
    /\ ret' = [ret EXCEPT ![i] = ReturnValue(csh[i], cst[i])]
    /\ UNCHANGED <<ev, waits, conf, now, tokens, state, percent, cmdLock, csh, cst, ctg, tpc, tok,
                   des, cur, sentBy, writes, lastCmd, lastOp, pre, first, stale>>

(* ------------------------- the motion thread --------------------------- *)
\* the token comparison of _send_command_from_thread (line 170) and of
\* _update_state_percent_from_thread (line 186)
TokenValid(i) == tokens[csh[i]] = tok[i]

\* variant of AfterCompare: nothing is resent when the target is reached
AfterCompare_NoResend(c, d) ==
    IF c = d THEN Done ELSE T("dir", "check")

\* _move_to_state_percent, lines 227-246: where the thread goes once its
\* local current_state c is known
AfterCompare(c, d) ==
    IF c = d
    THEN IF d = 0 \/ d = 100 THEN T("same", "check") ELSE Done
    ELSE T("dir", "check")

\* variant of AfterStep: the thread ends at the target without a STOP
AfterStep_NeverStops(c, d) ==
    IF c = d THEN Done ELSE T("loop", "sleep")

\* _move_to_state_percent, lines 255-270: where the thread goes after the
\* percent update of a step
AfterStep(c, d) ==
    IF c = d
    THEN IF c > 0 /\ c < 100 THEN T("stop", "check") ELSE Done
    ELSE T("loop", "sleep")

\* variant of PhaseCommand: the thread sends the state operate was given
PhaseCommand_SendsState(i, ph) == cst[i]

\* the command of each _send_command_from_thread call (lines 219, 232, 234,
\* 246, 270)
PhaseCommand(i, ph) ==
    CASE ph = "boot" -> InitialState(des[i])
      [] ph = "same" -> IF des[i] = 0 THEN OPEN ELSE CLOSE
      [] ph = "dir" -> Direction(cur[i], des[i])
      [] OTHER -> STOP

\* what follows each _send_command_from_thread call
AfterSend(ph) ==
    CASE ph = "boot" -> T("boot", "sleep")
      [] ph = "dir" -> T("first", "sleep")
      [] OTHER -> Done

\* _move_to_state_percent, lines 205-215: clamp the target, read the percent
TStart(i) ==
    LET c == get_current_state_percent(csh[i])
    IN  /\ tpc[i] = Start
        /\ cur' = [cur EXCEPT ![i] = c]
        /\ first' = [first EXCEPT ![i] = c]
        /\ tpc' = [tpc EXCEPT ![i] =
                      IF c = None THEN T("boot", "check") ELSE AfterCompare(c, des[i])]
        /\ UNCHANGED <<ev, waits, conf, now, tokens, state, percent, lock, cmdLock, cpc, csh, cst,
                       ctg, ret, tok, des, sentBy, writes, lastCmd, lastOp, pre,
                       stale>>

\* _send_command_from_thread, line 170: the token is compared before the lock
\* is taken
TCheck(i) ==
    \E ph \in SendPhases :
        /\ tpc[i] = T(ph, "check")
        /\ tpc' = [tpc EXCEPT ![i] =
                      IF TokenValid(i) THEN T(ph, "lock") ELSE AfterSend(ph)]
        /\ UNCHANGED <<ev, waits, conf, now, tokens, state, percent, lock, cmdLock, cpc, csh, cst,
                       ctg, ret, tok, des, cur, sentBy, writes, lastCmd, lastOp,
                       pre, first, stale>>

\* variant of TLock: the thread goes on without waiting for the shutter's lock
TLock_NoWait(i) ==
    \E ph \in SendPhases :
        /\ tpc[i] = T(ph, "lock")
        /\ lock' = [lock EXCEPT ![csh[i]] = TaskHolder(i)]
        /\ tpc' = [tpc EXCEPT ![i] = T(ph, "cmd")]
        /\ UNCHANGED <<ev, waits, conf, now, tokens, state, percent, cmdLock, cpc, csh, cst, ctg,
                       ret, tok, des, cur, sentBy, writes, lastCmd, lastOp, pre, first, stale>>

\* _send_command_from_thread, line 171: take the shutter's lock
TLock(i) ==
    \E ph \in SendPhases :
        /\ tpc[i] = T(ph, "lock")
        /\ lock[csh[i]] = Free
        /\ lock' = [lock EXCEPT ![csh[i]] = TaskHolder(i)]
        /\ tpc' = [tpc EXCEPT ![i] = T(ph, "cmd")]
        /\ UNCHANGED <<ev, waits, conf, now, tokens, state, percent, cmdLock, cpc, csh, cst, ctg,
                       ret, tok, des, cur, sentBy, writes, lastCmd, lastOp, pre, first, stale>>

\* _send_command, lines 156-160, called by the thread: take the command lock
\* and invoke the actuator channel; an exception ends the thread
TCmd(i, out) ==
    \E ph \in SendPhases :
        LET s == csh[i]
            c == PhaseCommand(i, ph)
        IN  /\ tpc[i] = T(ph, "cmd")
            /\ cmdLock = Free
            /\ sentBy' = [sentBy EXCEPT ![i] = Append(@, c)]
            /\ lastCmd' = [lastCmd EXCEPT ![s] = c]
            /\ IF out = "raise"
               THEN /\ lock' = [lock EXCEPT ![s] = Free]
                    /\ tpc' = [tpc EXCEPT ![i] = Dead]
                    /\ cmdLock' = cmdLock
               ELSE /\ cmdLock' = TaskHolder(i)
                    /\ tpc' = [tpc EXCEPT ![i] = T(ph, "spacing")]
                    /\ lock' = lock
            /\ UNCHANGED <<ev, waits, conf, now, tokens, state, percent, cpc, csh, cst, ctg, ret,
                           tok, des, cur, writes, lastOp, pre, first, stale>>

\* variant of LockAfterSend: the thread keeps the lock after its command
LockAfterSend_Keeps(i) == TaskHolder(i)

\* the holder of the shutter's lock once _send_command_from_thread has
\* returned (line 171: the with-block ends)
LockAfterSend(i) == Free

\* _send_command, line 161, and _send_command_from_thread, line 171: the
\* spacing sleep ends, both locks are released
TSpacing(i) ==
    \E ph \in SendPhases :
        /\ tpc[i] = T(ph, "spacing")
        /\ cmdLock' = CommandLockAfterSend(cmdLock)
        /\ lock' = [lock EXCEPT ![csh[i]] = LockAfterSend(i)]
        /\ now' = now + SEND_COMMAND_DELAY
        /\ tpc' = [tpc EXCEPT ![i] = AfterSend(ph)]
        /\ UNCHANGED <<ev, waits, conf, tokens, state, percent, cpc, csh, cst, ctg, ret, tok, des,
                       cur, sentBy, writes, lastCmd, lastOp, pre, first, stale>>

\* _move_to_state_percent, lines 223-225: the bootstrap sleep ends; line 186:
\* the token is compared before the lock is taken
TWakeBoot(i) ==
    /\ tpc[i] = T("boot", "sleep")
    /\ waits' = [waits EXCEPT ![i].boot = @ + 1]
    /\ now' = now + InitialDelay(csh[i], des[i])
    /\ IF TokenValid(i)
       THEN /\ tpc' = [tpc EXCEPT ![i] = T("boot", "write")]
            /\ cur' = cur
       ELSE /\ cur' = [cur EXCEPT ![i] = InitialPercent(des[i])]
            /\ tpc' = [tpc EXCEPT ![i] = AfterCompare(InitialPercent(des[i]), des[i])]
    /\ UNCHANGED <<ev, conf, tokens, state, percent, lock, cmdLock, cpc, csh, cst, ctg, ret,
                   tok, des, sentBy, writes, lastCmd, lastOp, pre, first, stale>>

\* _move_to_state_percent, lines 250-254 and 260-264: a step's sleep ends, the
\* local percent advances; line 186: the token is compared before the lock
TWakeStep(i) ==
    LET s == csh[i]
        c == cur[i] + Increment(cur[i], des[i])
    IN  /\ tpc[i] \in {T("first", "sleep"), T("loop", "sleep")}
        /\ waits' = [waits EXCEPT ![i].step = @ + 1]
        /\ now' = now + (IF tpc[i] = T("first", "sleep")
                         THEN FirstPercentDelay(s, cur[i], des[i])
                         ELSE StepDelay(s, cur[i], des[i]))
        /\ cur' = [cur EXCEPT ![i] = c]
        /\ tpc' = [tpc EXCEPT ![i] =
                      IF TokenValid(i) THEN T("loop", "write") ELSE AfterStep(c, des[i])]
        /\ UNCHANGED <<ev, conf, tokens, state, percent, lock, cmdLock, cpc, csh, cst, ctg,
                       ret, tok, des, sentBy, writes, lastCmd, lastOp, pre, first,
                       stale>>

\* variant of TWrite: the percent and the state are stored for every shutter
TWrite_EveryShutter(i) ==
    LET s == csh[i]
        boot == tpc[i] = T("boot", "write")
        p == Clamp(IF boot THEN InitialPercent(des[i]) ELSE cur[i])
    IN  /\ tpc[i] \in {T("boot", "write"), T("loop", "write")}
        /\ lock[s] = Free
        /\ percent' = [x \in Shutters |-> p]
        /\ state' = [x \in Shutters |-> StateOfPercent(s, p)]
        /\ writes' = [writes EXCEPT ![i] = @ + 1]
        /\ cur' = [cur EXCEPT ![i] = IF boot THEN InitialPercent(des[i]) ELSE @]
        /\ tpc' = [tpc EXCEPT ![i] =
                      IF boot THEN AfterCompare(InitialPercent(des[i]), des[i])
                      ELSE AfterStep(cur[i], des[i])]
        /\ UNCHANGED <<ev, waits, conf, now, tokens, lock, cmdLock, cpc, csh, cst, ctg, ret, tok,
                       des, sentBy, lastCmd, lastOp, pre, first, stale>>

\* _update_state_percent_from_thread, lines 187-196: under the shutter's lock,
\* store the percent and the state that goes with it
TWrite(i) ==
    LET s == csh[i]
        boot == tpc[i] = T("boot", "write")
        p == Clamp(IF boot THEN InitialPercent(des[i]) ELSE cur[i])
    IN  /\ tpc[i] \in {T("boot", "write"), T("loop", "write")}
        /\ lock[s] = Free
        /\ percent' = [percent EXCEPT ![s] = p]
        /\ state' = [state EXCEPT ![s] = StateOfPercent(s, p)]
        /\ writes' = [writes EXCEPT ![i] = @ + 1]
        /\ cur' = [cur EXCEPT ![i] = IF boot THEN InitialPercent(des[i]) ELSE @]
        /\ tpc' = [tpc EXCEPT ![i] =
                      IF boot THEN AfterCompare(InitialPercent(des[i]), des[i])
                      ELSE AfterStep(cur[i], des[i])]
        /\ UNCHANGED <<ev, waits, conf, now, tokens, lock, cmdLock, cpc, csh, cst, ctg, ret, tok,
                       des, sentBy, lastCmd, lastOp, pre, first, stale>>

(* ------------------------- the specifications -------------------------- *)
\* the steps of an operate() call that sends its command itself
SyncStep(i) ==
    \/ \E out \in ChannelOutcomes : OperateCmd(i, out)
    \/ OperateSpacing(i)

\* the steps of the motion thread of call i
TaskStep(i) ==
    \/ TStart(i)
    \/ TCheck(i)
    \/ TLock(i)
    \/ \E out \in ChannelOutcomes : TCmd(i, out)
    \/ TSpacing(i)
    \/ TWakeBoot(i)
    \/ TWakeStep(i)
    \/ TWrite(i)

\* Spec: from the state after loading, MaxOps calls on any shutter
Next ==
    \/ Tick
    \/ \E i \in 1..MaxOps :
        \/ \E in \in OperateInputs : OperateUnknown(i, in[1], in[2], in[3])
        \/ \E in \in OperateInputs : Operate(i, in[1], in[2], in[3])
        \/ SyncStep(i)
        \/ OperateReturn(i)
        \/ TaskStep(i)

Spec == Init /\ [][Next]_vars

\* SpecLive: Spec with every thread that can run scheduled eventually: the
\* calling thread of each operate() and each motion thread is an operating
\* system thread, and time.sleep returns
Fairness ==
    \A i \in 1..MaxOps :
        /\ WF_vars(SyncStep(i) \/ OperateReturn(i))
        /\ WF_vars(TaskStep(i))

SpecLive == Init /\ [][Next]_vars /\ Fairness

\* SpecBurst: from the state after loading, MaxOps + 1 calls that start a
\* motion thread of the fine-tunable shutter
NextBurst ==
    \/ Tick
    \/ \E i \in Calls :
        \/ \E in \in BurstInputs : Operate(i, in[1], in[2], in[3])
        \/ OperateReturn(i)
        \/ TaskStep(i)

SpecBurst == Init /\ [][NextBurst]_vars

\* SpecMotion: one call on the fine-tunable shutter, at rest at any of the
\* StartPercents or never operated, with any target
RestCommand(p) == IF p = 0 THEN OPEN ELSE IF p = 100 THEN CLOSE ELSE STOP

\* the fine-tunable shutter at rest at a percent of P after earlier calls
\* (None: never operated), no call in progress
AtRest(P) ==
    /\ now = 60000
    /\ \E p \in P :
          /\ percent = [s \in Shutters |-> IF s = FINE THEN p ELSE None]
          /\ state = [s \in Shutters |->
                         IF s = FINE /\ p # None THEN StateOfPercent(s, p) ELSE "NONE"]
          /\ tokens = [s \in Shutters |-> IF s = FINE /\ p # None THEN 1 ELSE None]
          /\ lastCmd = [s \in Shutters |->
                           IF s = FINE /\ p # None THEN RestCommand(p) ELSE "NONE"]
    /\ lock = [s \in Shutters |-> Free]
    /\ cmdLock = Free
    /\ cpc = [i \in Calls |-> "idle"]
    /\ csh = [i \in Calls |-> UnknownShutter]
    /\ cst = [i \in Calls |-> STOP]
    /\ ctg = [i \in Calls |-> None]
    /\ ret = [i \in Calls |-> "none"]
    /\ tpc = [i \in Calls |-> NoTask]
    /\ tok = [i \in Calls |-> None]
    /\ des = [i \in Calls |-> None]
    /\ cur = [i \in Calls |-> None]
    /\ sentBy = [i \in Calls |-> <<>>]
    /\ writes = [i \in Calls |-> 0]
    /\ lastOp = [s \in Shutters |-> 0]
    /\ pre = [i \in Calls |-> NoPre]
    /\ first = [i \in Calls |-> NotRead]
    /\ stale = [i \in Calls |-> FALSE]
    /\ waits = [i \in Calls |-> [boot |-> 0, step |-> 0]]
    /\ ev = NoEvents

InitAtRest(P) ==
    /\ conf = [raw |-> FineSection, res |-> LoadSection(FineSection)]
    /\ AtRest(P)

InitMotion == InitAtRest(StartPercents \cup {None})

NextMotion ==
    \/ \E in \in MotionInputs : Operate(1, in[1], in[2], in[3])
    \/ SyncStep(1)
    \/ OperateReturn(1)
    \/ TaskStep(1)

SpecMotion == InitMotion /\ [][NextMotion]_vars

\* SpecSupersede: the fine-tunable shutter at rest just below fully closed (or never operated),
\* operate(CLOSE) and then operate(OPEN)
InitSupersede == InitAtRest(SupersedeStarts)

NextSupersede ==
    \/ Operate(1, FINE, CLOSE, None)
    \/ Operate(2, FINE, OPEN, None)
    \/ \E i \in 1..2 :
        \/ OperateReturn(i)
        \/ TaskStep(i)

SpecSupersede == InitSupersede /\ [][NextSupersede]_vars

\* SpecBasic: from the state after loading, MaxOps calls on the basic shutter
NextBasic ==
    \/ Tick
    \/ \E i \in 1..MaxOps :
        \/ \E in \in BasicInputs : Operate(i, in[1], in[2], in[3])
        \/ SyncStep(i)
        \/ OperateReturn(i)

SpecBasic == Init /\ [][NextBasic]_vars

\* SpecLoad: a section of the configuration file, not loaded yet, is loaded
InitLoad ==
    /\ InitRuntime
    /\ conf \in {[raw |-> c, res |-> Pending] : c \in Sections}

NextLoad == LoadConfig

SpecLoad == InitLoad /\ [][NextLoad]_vars

\* SpecHalf: the fine-tunable shutter, loaded with any of the HalfwayValues
\* and at rest at any of the HalfStarts, operate(STOP) and then operate(HALF)
HalfStarts == {None, 0, 50, 99, 100}

InitHalf ==
    /\ conf \in {[raw |-> c, res |-> LoadSection(c)] :
                    c \in {[FineSection EXCEPT !.halfway = h] : h \in HalfwayValues}}
    /\ AtRest(HalfStarts)

NextHalf ==
    \/ Operate(1, FINE, STOP, None)
    \/ Operate(2, FINE, HALF, None)
    \/ \E i \in 1..2 :
        \/ SyncStep(i)
        \/ OperateReturn(i)
        \/ TaskStep(i)

SpecHalf == InitHalf /\ [][NextHalf]_vars

\* SpecTask: the fine-tunable shutter at rest fully open, fully closed or
\* never operated, one call that starts a motion thread for any of the
\* TaskTargets, and operate(STOP) at any moment after it; every thread that
\* can run is scheduled eventually
TaskStarts == {0, 100, None}
TaskTargets == {-3, 1, 99, 120}
TaskInputs ==
    {<<FINE, OPEN, None>>, <<FINE, CLOSE, None>>, <<FINE, HALF, None>>}
        \cup {<<FINE, HALF, t>> : t \in TaskTargets}

NextTask ==
    \/ \E in \in TaskInputs : Operate(1, in[1], in[2], in[3])
    \/ Operate(2, FINE, STOP, None)
    \/ \E i \in 1..2 :
        \/ SyncStep(i)
        \/ OperateReturn(i)
        \/ TaskStep(i)

SpecTask ==
    /\ InitAtRest(TaskStarts)
    /\ [][NextTask]_vars
    /\ \A i \in 1..2 :
          /\ WF_vars(SyncStep(i) \/ OperateReturn(i))
          /\ WF_vars(TaskStep(i))

(* ---------------------- the event handler's methods -------------------- *)
\* the calls made on the EventHandler of SpecEvents
MaxEvents == 4

\* everything but the EventHandler
shuttersVars ==
    <<now, tokens, state, percent, lock, cmdLock, cpc, csh, cst, ctg, ret, tpc,
      tok, des, cur, sentBy, writes, lastCmd, lastOp, pre, first, stale, waits,
      conf>>

\* list.remove, line 39: the list without the first occurrence of x
RECURSIVE RemoveFirst(_, _)
RemoveFirst(q, x) ==
    IF q = <<>> THEN <<>>
    ELSE IF Head(q) = x THEN Tail(q)
    ELSE <<Head(q)>> \o RemoveFirst(Tail(q), x)

\* subscribe, lines 26-31: the callback is appended under the lock
Subscribe(cb) ==
    /\ ev.n < MaxEvents
    /\ ev' = [ev EXCEPT !.callbacks = Append(@, cb),
                        !.n = @ + 1,
                        !.last = [op |-> "subscribe", cb |-> cb, outcome |-> "ok"],
                        !.subs[cb] = @ + 1]
    /\ UNCHANGED shuttersVars

\* lines 8-12 and 14: the names bound in the module events
ModuleNames == {"Callable", "Thread", "Lock", "logs", "logging", "EventHandler"}

\* line 33: the names bound in unsubscribe
UnsubscribeNames == {"self", "callable"}

\* lines 38-39: the name the body of unsubscribe reads
UnsubscribeReads == "callback"

\* unsubscribe, lines 33-39: under the lock, the body reads a name; if it is
\* not bound, NameError leaves the with-block and the method
Unsubscribe(cb) ==
    /\ ev.n < MaxEvents
    /\ IF UnsubscribeReads \in UnsubscribeNames \cup ModuleNames
       THEN ev' = [ev EXCEPT !.callbacks = RemoveFirst(@, cb),
                             !.n = @ + 1,
                             !.last = [op |-> "unsubscribe", cb |-> cb,
                                       outcome |-> "ok"],
                             !.subs[cb] = 0]
       ELSE ev' = [ev EXCEPT !.n = @ + 1,
                             !.last = [op |-> "unsubscribe", cb |-> cb,
                                       outcome |-> "NameError"],
                             !.subs[cb] = 0]
    /\ UNCHANGED shuttersVars

\* dispatch, lines 41-50: under the lock, one thread is started for each
\* entry of _callbacks
Dispatch ==
    /\ ev.n < MaxEvents
    /\ ev' = [ev EXCEPT !.n = @ + 1,
                        !.last = [op |-> "dispatch", cb |-> NoCallback,
                                  outcome |-> "ok"],
                        !.started = [cb \in Callbacks |-> Count(ev.callbacks, cb)],
                        !.pending = [cb \in Callbacks |->
                                        @[cb] + Count(ev.callbacks, cb)]]
    /\ UNCHANGED shuttersVars

\* line 49: a started thread runs its callback
CallbackRuns(cb) ==
    /\ ev.pending[cb] > 0
    /\ ev' = [ev EXCEPT !.pending[cb] = @ - 1]
    /\ UNCHANGED shuttersVars

\* SpecEvents: MaxEvents calls of subscribe, unsubscribe and dispatch on one
\* EventHandler, and the threads dispatch starts
NextEvents ==
    \/ \E cb \in Callbacks :
        \/ Subscribe(cb)
        \/ Unsubscribe(cb)
        \/ CallbackRuns(cb)
    \/ Dispatch

SpecEvents == Init /\ [][NextEvents]_vars

(* ------------------------------- claims -------------------------------- *)
\* C1: a motion task that was inside one of its waits when a later operate
\* call installed a new token for its shutter sends no hardware command and
\* writes no position state from then on.
C1_SupersededWhileWaitingIsSilent ==
    [][\A i \in Calls :
          stale[i] => sentBy'[i] = sentBy[i] /\ writes'[i] = writes[i]]_vars

\* operate(shutter, STOP) of call i on a fine-tunable shutter has returned
\* and no operate call for that shutter has followed
StopSettled(i) ==
    /\ cpc[i] = "returned"
    /\ ret[i] = "TRUE"
    /\ cst[i] = STOP
    /\ IsFineTunable(csh[i])
    /\ lastOp[csh[i]] = i

\* C2: after operate(shutter, STOP) on a fine-tunable shutter has returned and
\* until the next operate call for that shutter, the last hardware command of
\* the shutter stays STOP, get_current_state stays STOP and the stored percent
\* does not change.
C2_StopStaysStopped ==
    [][\A i \in Calls :
          StopSettled(i)' =>
              /\ lastCmd'[csh[i]] = STOP
              /\ get_current_state(csh[i])' = STOP
              /\ StopSettled(i) => percent'[csh[i]] = percent[csh[i]]]_vars

\* task i has ended: it returned or an exception ended its thread
Ended(i) == tpc[i] \in {Done, Dead}

\* C3: operate(shutter, HALF, p) with p in 0..100 on a fine-tunable shutter
\* whose percent is known, with no motion task in flight and no operate call
\* after it: once the motion task has ended, get_current_state_percent is p.
C3_HalfReachesTarget ==
    \A i \in Calls :
        /\ cst[i] = HALF /\ ctg[i] \in 0..100
        /\ IsFineTunable(csh[i])
        /\ pre[i].percent # None
        /\ pre[i].alive = {}
        /\ lastOp[csh[i]] = i
        /\ Ended(i)
        => get_current_state_percent(csh[i]) = ctg[i]

\* C4: on a fine-tunable shutter with a known percent below 100, operate(CLOSE)
\* followed by operate(OPEN) before the CLOSE task has completed, with no
\* further operate call: the stored percent never reaches 100, and once both
\* motion tasks have returned it is 0.
C4_CloseThenOpenEndsOpen ==
    \A i, j \in Calls :
        /\ cpc[i] # "idle" /\ cpc[j] # "idle"
        /\ cst[i] = CLOSE /\ cst[j] = OPEN
        /\ csh[i] = csh[j] /\ IsFineTunable(csh[i])
        /\ pre[i].percent \in 0..99
        /\ pre[j].last = i /\ i \in pre[j].alive /\ pre[j].percent # 100
        /\ lastOp[csh[j]] = j
        => /\ percent[csh[j]] # 100
           /\ tpc[i] = Done /\ tpc[j] = Done => percent[csh[j]] = 0

\* the commands a task whose percent already equals its target d sends
ResendOf(d) == IF d = 0 THEN <<OPEN>> ELSE IF d = 100 THEN <<CLOSE>> ELSE <<>>

\* task i started with the percent equal to its target, no other task of its
\* shutter was in flight when its call was made, and no call has followed
StartedAtTarget(i) ==
    /\ tpc[i] # NoTask
    /\ first[i] = des[i]
    /\ pre[i].alive = {}
    /\ lastOp[csh[i]] = i

\* C5: a motion task that starts with the percent equal to its target, with no
\* other task in flight, performs no incremental step and no percent write,
\* sends exactly one OPEN (target 0) or one CLOSE (target 100) and nothing
\* else, and leaves the percent unchanged.
C5_NoMotionAtTarget ==
    \A i \in Calls :
        StartedAtTarget(i) =>
            /\ writes[i] = 0
            /\ tpc[i][1] \in {"same", "done", "dead"}
            /\ cur[i] = des[i]
            /\ percent[csh[i]] = des[i]
            /\ \/ sentBy[i] = ResendOf(des[i])
               \/ sentBy[i] = <<>> /\ tpc[i] \in {T("same", "check"), T("same", "lock"),
                                                  T("same", "cmd")}

C5_Witness ==
    \E i \in Calls :
        /\ StartedAtTarget(i)
        /\ des[i] = 0 /\ cst[i] = OPEN
        /\ tpc[i] = Done
        /\ sentBy[i] = <<OPEN>>

\* C6 as claimed: operate with a shutter id that is not configured returns
\* false, sends no hardware command and changes no token and no position
\* state of any shutter.
C6_UnknownReturnsFalse ==
    [][\A i \in Calls :
          cpc[i] = "idle" /\ cpc'[i] # "idle" /\ csh'[i] \notin Shutters =>
              /\ ret'[i] = "FALSE"
              /\ sentBy' = sentBy /\ lastCmd' = lastCmd
              /\ tokens' = tokens /\ state' = state /\ percent' = percent]_vars

\* C6 as amended: operate with a shutter id that is not configured raises
\* ValueError instead of returning a value, sends no hardware command, starts
\* no thread and changes no token and no position state of any shutter.
C6_UnknownRaises ==
    [][\A i \in Calls :
          cpc[i] = "idle" /\ cpc'[i] # "idle" /\ csh'[i] \notin Shutters =>
              /\ ret'[i] = "ValueError" /\ cpc'[i] = "returned"
              /\ sentBy' = sentBy /\ lastCmd' = lastCmd /\ tpc' = tpc
              /\ lock' = lock
              /\ tokens' = tokens /\ state' = state /\ percent' = percent]_vars

C6_Witness ==
    \E i \in Calls :
        /\ csh[i] = UnknownShutter /\ cpc[i] = "returned" /\ ret[i] = "ValueError"
        /\ \E j \in Calls : j < i /\ csh[j] \in Shutters /\ tokens[csh[j]] # None

\* call i is operate(shutter, HALF) on a basic shutter
HalfOnBasic(i) ==
    cpc[i] # "idle" /\ csh[i] \in Shutters \ FineTunable /\ cst[i] = HALF

\* C7: operate(shutter, HALF) on a basic shutter returns false, sends no
\* hardware command, starts no motion task and leaves the shutter's commanded
\* state and percent unchanged.
C7_HalfOnBasicRejected ==
    [][\A i \in Calls :
          HalfOnBasic(i)' /\ cpc'[i] # cpc[i] =>
              /\ sentBy'[i] = <<>> /\ lastCmd' = lastCmd
              /\ tpc'[i] = NoTask
              /\ state' = state /\ percent' = percent
              /\ cpc'[i] = "returned" => ret'[i] = "FALSE"]_vars

C7_Witness ==
    \E i \in Calls : HalfOnBasic(i) /\ cpc[i] = "returned" /\ ret[i] = "FALSE"

\* C8: operate(OPEN | CLOSE | HALF) on a fine-tunable shutter can return as
\* soon as its thread has been started, whatever the thread has done, and it
\* returns true; operate on a configured shutter returns false only for HALF
\* on a basic shutter.
C8_ReturnsOnceScheduled ==
    \A i \in Calls :
        /\ cpc[i] = "exit" /\ StartsThread(csh[i], cst[i]) =>
              tpc[i] # NoTask /\ ENABLED OperateReturn(i)
        /\ cpc[i] = "returned" /\ StartsThread(csh[i], cst[i]) => ret[i] = "TRUE"
        /\ ret[i] = "FALSE" => HalfOnBasic(i)

C8_Witness ==
    \E i \in Calls :
        /\ StartsThread(csh[i], cst[i])
        /\ cpc[i] = "returned" /\ ret[i] = "TRUE"
        /\ tpc[i] = Start

\* C9: no motion task holds its shutter's lock (or the command lock) during
\* its bootstrap wait, first-step wait or per-step wait: a task holds the
\* lock only between taking it for a command and the end of that command.
C9_NoLockWhileWaiting ==
    /\ \A i \in Calls :
          tpc[i] \in Sleeps =>
              lock[csh[i]] # TaskHolder(i) /\ cmdLock # TaskHolder(i)
    /\ \A s \in Shutters : \A i \in Calls :
          lock[s] = TaskHolder(i) =>
              csh[i] = s /\ tpc[i][2] \in {"cmd", "spacing"}

\* a later call holds the lock of a shutter while a task of it is in a wait
C9_Witness ==
    \E i, j \in Calls :
        /\ tpc[i] \in Sleeps
        /\ j # i /\ csh[j] = csh[i]
        /\ lock[csh[i]] = OpHolder(j)
        /\ tokens[csh[i]] = tok[j]

\* C10: when the actuator channel fails during the synchronous command of an
\* operate call, the call returns false and the shutter's commanded state and
\* percent are those of before the call.
C10_SyncFailureKeepsState ==
    [][\A i \in Calls :
          cpc[i] = "sync_cmd" /\ cpc'[i] = "returned" =>
              /\ ret'[i] = "FALSE"
              /\ state'[csh[i]] = pre[i].state
              /\ percent'[csh[i]] = pre[i].percent]_vars

\* call i or its motion thread takes this step
StepOf(i) == cpc'[i] # cpc[i] \/ tpc'[i] # tpc[i]

\* C11: a step of an operate call or of a motion task for shutter A changes
\* neither the token, the commanded state, the percent nor the lock of another
\* shutter B and sends no command addressed to B; and a motion task of A that
\* is in one of its waits holds neither a lock of B nor the command lock, so
\* it does not keep an operate call for B from completing.
C11_ShuttersAreIndependent ==
    /\ [][\A i \in Calls : \A B \in Shutters :
             StepOf(i) /\ csh'[i] # B =>
                 /\ tokens'[B] = tokens[B]
                 /\ state'[B] = state[B]
                 /\ percent'[B] = percent[B]
                 /\ lastCmd'[B] = lastCmd[B]
                 /\ lock'[B] = lock[B]]_vars
    /\ [](\A i \in Calls :
             tpc[i] \in Sleeps =>
                 /\ cmdLock # TaskHolder(i)
                 /\ \A B \in Shutters : lock[B] # TaskHolder(i))

\* a call for the basic shutter is inside its command while a task of the
\* fine-tunable shutter, which has written a percent, is in a wait
C11_Witness ==
    \E i, j \in Calls :
        /\ csh[i] = FINE /\ tpc[i] \in Sleeps /\ writes[i] > 0
        /\ csh[j] = BASIC /\ cpc[j] = "sync_spacing"
        /\ cmdLock = OpHolder(j)

\* the calls and tasks that are inside an invocation of the actuator channel
\* (the command has been run, the spacing delay has not ended)
InChannel ==
    {<<"op", i>> : i \in {j \in Calls : cpc[j] = "sync_spacing"}}
        \cup {<<"task", i>> : i \in {j \in Calls : tpc[j][2] = "spacing"}}

\* C12: at most one invocation of the actuator channel (the command and the
\* spacing delay that follows it) is in progress at any time, over all
\* shutters, and it is the invocation of the holder of the command lock.
C12_ChannelIsSerialized ==
    /\ Cardinality(InChannel) <= 1
    /\ \A h \in InChannel : cmdLock = h
    /\ InChannel = {} => cmdLock = Free

\* a call is about to invoke the channel while a task of another shutter is
\* inside its invocation
C12_Witness ==
    \E i, j \in Calls :
        /\ tpc[i][2] = "spacing" /\ cmdLock = TaskHolder(i)
        /\ cpc[j] = "sync_cmd" /\ csh[j] # csh[i]

\* C13: each shutter's stored percent is UNKNOWN or an integer in 0..100 and
\* get_current_state_percent returns UNKNOWN or a value in 0..100; a shutter
\* that was never operated reports percent UNKNOWN and state STOP.
C13_PercentInRange ==
    \A s \in Shutters :
        /\ percent[s] \in {None} \cup (0..100)
        /\ get_current_state_percent(s) \in {None} \cup (0..100)
        /\ tokens[s] = None =>
              get_current_state_percent(s) = None /\ get_current_state(s) = STOP

\* a task given a target above 100 has ended after writing the percent
C13_Witness ==
    \E i \in Calls :
        /\ ctg[i] > 100 /\ cst[i] = HALF
        /\ tpc[i] = Done /\ writes[i] > 0
        /\ percent[csh[i]] = 100
        /\ tokens[BASIC] = None

\* C14: every command passed to the actuator channel, by an operate call or
\* by a motion task, is OPEN, CLOSE or STOP; HALF is never sent.
C14_OnlyHardwareCommands ==
    /\ \A i \in Calls : \A k \in 1..Len(sentBy[i]) :
          sentBy[i][k] \in shutter_state_to_command
    /\ \A s \in Shutters : lastCmd[s] \in shutter_state_to_command \cup {"NONE"}

\* the task of an operate(HALF) call has sent commands and ended
C14_Witness ==
    \E i \in Calls :
        /\ cst[i] = HALF /\ tpc[i] = Done
        /\ Len(sentBy[i]) >= 2
        /\ sentBy[i][Len(sentBy[i])] = STOP

\* the motion thread of call i has run at least one statement and has not ended
Running(i) == Alive(i) /\ tpc[i] # Start

\* C15: at any time at most one motion task per shutter is alive: a superseded
\* task is no longer running when the new task runs.
C15_OneTaskPerShutter ==
    \A s \in Shutters :
        Cardinality({i \in Calls : csh[i] = s /\ Running(i)}) <= 1

\* C16: while an operate call holds a shutter's lock, no motion task of that
\* shutter sends a command or writes position state; a call or task that is
\* sending for a shutter holds that shutter's lock, so commands and writes of
\* one shutter never overlap.
C16_LockSerializesShutter ==
    /\ [](\A i \in Calls :
             /\ tpc[i][2] \in {"cmd", "spacing"} => lock[csh[i]] = TaskHolder(i)
             /\ cpc[i] \in {"sync_cmd", "sync_spacing", "exit"} =>
                   lock[csh[i]] = OpHolder(i))
    /\ [][\A i, j \in Calls :
             /\ csh[j] \in Shutters /\ lock[csh[j]] = OpHolder(j)
             /\ csh[i] = csh[j] /\ tpc'[i] # tpc[i]
             => /\ sentBy'[i] = sentBy[i] /\ writes'[i] = writes[i]
                /\ percent' = percent /\ state' = state
                /\ lastCmd' = lastCmd]_vars

\* a task whose token check has passed waits for the lock of its shutter
\* while a later call holds it and is inside its synchronous command
C16_Witness ==
    \E i, j \in Calls :
        /\ i # j /\ csh[i] = csh[j]
        /\ tpc[i] \in {T(ph, "lock") : ph \in SendPhases}
        /\ cpc[j] = "sync_spacing" /\ lock[csh[j]] = OpHolder(j)

\* C17: every write to a shutter's stored percent is made by a motion task
\* whose token equals the shutter's current token at the moment of the write.
C17_WritesHoldCurrentToken ==
    [][\A i \in Calls :
          writes'[i] # writes[i] => tokens[csh[i]] = tok[i]]_vars

\* C18: every hardware command of a motion task is sent while the task's
\* token equals the shutter's current token.
C18_SendsHoldCurrentToken ==
    [][\A i \in Calls :
          sentBy'[i] # sentBy[i] /\ tpc'[i] # tpc[i] => tokens[csh[i]] = tok[i]]_vars

\* C20: every operate call on a configured shutter installs a token that
\* differs from the token that was current for the shutter just before the
\* call, and that token is the one given to the call's thread.
C20_NewTokenDiffers ==
    [][\A i \in Calls :
          cpc[i] = "idle" /\ cpc'[i] # "idle" /\ csh'[i] \in Shutters =>
              /\ tokens'[csh'[i]] # tokens[csh'[i]]
              /\ tokens'[csh'[i]] = tok'[i]]_vars

\* two successive calls for one shutter read the same clock value: the second
\* one installs that value minus one
C20_Witness ==
    \E i, j \in Calls :
        /\ cpc[j] # "idle" /\ csh[j] \in Shutters /\ csh[i] = csh[j]
        /\ pre[j].last = i
        /\ tok[i] = now /\ tok[j] = now - 1
        /\ tokens[csh[j]] = tok[j]

\* C19: after a later call has installed a new token for its shutter, a
\* motion task that was alive then performs at most one more action (one
\* hardware command or one percent write) and none after that.
C19_AtMostOneActionAfterSupersede ==
    \A i, j \in Calls :
        cpc[j] # "idle" /\ i \in pre[j].alive =>
            Actions(i) <= pre[j].acts[i] + 1

\* C21: the tokens installed for one shutter by successive operate calls are
\* strictly increasing.
C21_TokensIncrease ==
    [][\A s \in Shutters :
          tokens'[s] # tokens[s] /\ tokens[s] # None => tokens'[s] > tokens[s]]_vars

\* C22: a token value is never installed twice for one shutter, so at any time
\* at most one alive motion task per shutter holds the current token.
C22_TokensAreUnique ==
    /\ \A i, j \in Calls :
          i # j /\ cpc[i] # "idle" /\ cpc[j] # "idle"
              /\ csh[i] \in Shutters /\ csh[i] = csh[j] => tok[i] # tok[j]
    /\ \A s \in Shutters :
          Cardinality({i \in Calls : csh[i] = s /\ Alive(i) /\ tok[i] = tokens[s]}) <= 1

\* the motion thread of call i is the only one of its shutter: none was in
\* flight when the call was made and no call has followed
Sole(i) ==
    /\ tpc[i] # NoTask
    /\ pre[i].alive = {}
    /\ lastOp[csh[i]] = i

\* the incremental percent writes of task i (the bootstrap write is not one)
Steps(i) == writes[i] - (IF first[i] = None /\ writes[i] > 0 THEN 1 ELSE 0)

\* the last command task i passed to the channel
LastSent(i) == IF sentBy[i] = <<>> THEN "NONE" ELSE sentBy[i][Len(sentBy[i])]

\* C23: a motion task that starts with the percent UNKNOWN sends OPEN first if
\* its target is at most 50 and CLOSE otherwise; no percent is written before
\* the bootstrap wait has elapsed; its first write is 0 (after OPEN) or 100
\* (after CLOSE); and with no further operate call the percent equals the
\* target once the task has ended.
C23_BootstrapReachesTarget ==
    \A i \in Calls :
        Sole(i) /\ first[i] = None =>
            /\ sentBy[i] # <<>> => sentBy[i][1] = InitialState(des[i])
            /\ tpc[i][1] = "boot" /\ tpc[i][2] # "write" =>
                  writes[i] = 0 /\ percent[csh[i]] = None
            /\ tpc[i] = T("boot", "write") => writes[i] = 0 /\ sentBy[i] # <<>>
            /\ writes[i] = 1 => percent[csh[i]] = InitialPercent(des[i])
            /\ Ended(i) => get_current_state_percent(csh[i]) = des[i]

\* C24: a motion task that is not superseded and has made at least one
\* incremental step sends STOP as its last command, after its final percent
\* write, if and only if its target is strictly between 0 and 100; a task
\* whose target is 0 or 100 never sends STOP.
C24_StopIffIntermediate ==
    \A i \in Calls :
        Sole(i) =>
            /\ des[i] \in {0, 100} =>
                  \A k \in 1..Len(sentBy[i]) : sentBy[i][k] # STOP
            /\ tpc[i][1] = "stop" =>
                  Steps(i) >= 1 /\ percent[csh[i]] = des[i]
            /\ LastSent(i) = STOP =>
                  /\ percent[csh[i]] = des[i]
                  /\ Cardinality({k \in 1..Len(sentBy[i]) : sentBy[i][k] = STOP}) = 1
            /\ Ended(i) /\ Steps(i) >= 1 =>
                  (des[i] \in 1..99 <=> LastSent(i) = STOP)

C24_Witness ==
    \E i \in Calls :
        /\ Sole(i) /\ tpc[i] = Done
        /\ Steps(i) >= 2 /\ des[i] \in 1..99
        /\ LastSent(i) = STOP

\* C25: in a motion task that is not superseded, the direction command (OPEN
\* when the target is below the current percent, CLOSE otherwise) has been
\* sent before each incremental percent write, each such write changes the
\* percent by exactly 1 in that direction, and the percent never passes the
\* target.
C25_StepsByOneTowardsTarget ==
    [][\A i \in Calls :
          Sole(i) /\ tpc[i] = T("loop", "write") /\ writes'[i] # writes[i] =>
              LET p == percent[csh[i]]
                  q == percent'[csh[i]]
                  dir == IF des[i] < p THEN OPEN ELSE CLOSE
              IN  /\ p # None /\ p # des[i]
                  /\ LastSent(i) = dir
                  /\ q = p + (IF dir = OPEN THEN -1 ELSE 1)
                  /\ dir = OPEN => q >= des[i]
                  /\ dir = CLOSE => q <= des[i]]_vars

C25_Witness ==
    \E i \in Calls :
        /\ Sole(i) /\ tpc[i] = Done
        /\ first[i] = 50 /\ des[i] = 0
        /\ Steps(i) = 50 /\ percent[csh[i]] = 0

\* C26: the wait before a percent write is the closed-offset delay when the
\* step crosses between 99 and 100 (in either direction) and
\* full-length delay of the direction / 99 otherwise; for the first step the
\* spacing constant is subtracted (floored at 0) and the start-moving delay
\* is added.
C26_StepDelays ==
    [][\A i \in Calls :
          tpc[i] \in {T("first", "sleep"), T("loop", "sleep")} /\ tpc'[i] # tpc[i] =>
              LET s == csh[i]
                  c == cur[i]
                  closing == des[i] >= c
                  crossing == (c = 100 /\ ~closing) \/ (c = 99 /\ closing)
                  base == IF crossing THEN shutter_closed_offset[s]
                          ELSE IF closing THEN shutter_delay_close[s] \div 99
                          ELSE shutter_delay_open[s] \div 99
                  less == base - SEND_COMMAND_DELAY
              IN  now' - now =
                      IF tpc[i] = T("first", "sleep")
                      THEN (IF less > 0 THEN less ELSE 0) + START_MOVING_DELAY
                      ELSE base]_vars

\* a task that has made a step is in the wait of the step from 99 to 100
C26_Witness ==
    \E i \in Calls :
        /\ tpc[i] = T("loop", "sleep")
        /\ cur[i] = 99 /\ des[i] = 100 /\ writes[i] > 0

\* C27: when the actuator channel fails for a command of a motion task, the
\* task goes on with its next steps instead of terminating.
C27_TaskSurvivesChannelFailure ==
    [][\A i \in Calls :
          tpc[i][2] = "cmd" /\ tpc'[i] # tpc[i] => tpc'[i] = T(tpc[i][1], "spacing")]_vars

\* call i is operate(shutter, OPEN | CLOSE | STOP) on a basic shutter
DirectOnBasic(i) ==
    /\ cpc[i] # "idle"
    /\ csh[i] \in Shutters \ FineTunable
    /\ cst[i] \in shutter_state_to_command

\* C28: on a basic shutter, operate with OPEN, CLOSE or STOP writes that state
\* as the commanded state, sends exactly one command, the one of that state,
\* and returns true; it starts no motion task.
C28_BasicIsSynchronous ==
    \A i \in Calls :
        DirectOnBasic(i) =>
            /\ tpc[i] = NoTask
            /\ cpc[i] \in {"sync_cmd", "sync_spacing", "exit"} => state[csh[i]] = cst[i]
            /\ cpc[i] = "sync_cmd" => sentBy[i] = <<>>
            /\ cpc[i] \in {"sync_spacing", "exit"} => sentBy[i] = <<cst[i]>>
            /\ cpc[i] = "returned" => ret[i] = "TRUE" /\ sentBy[i] = <<cst[i]>>

\* the delays a section defines
Defined(c) == {k \in {"close", "offset", "open"} : c[k] # None}

\* C29: loading a section that defines some but not all of the close, offset
\* and open delays is rejected with an error, and a section that is loaded
\* has all three delays stored or none of them.
C29_PartialConfigRejected ==
    conf.res # Pending =>
        /\ Cardinality(Defined(conf.raw)) \in {1, 2} => conf.res.status = "error"
        /\ conf.res.status = "loaded" =>
              \/ /\ conf.res.delay_close # None
                 /\ conf.res.closed_offset # None
                 /\ conf.res.delay_open # None
              \/ /\ conf.res.delay_close = None
                 /\ conf.res.closed_offset = None
                 /\ conf.res.delay_open = None

\* no operate call for shutter s is in progress and no motion task of s is alive
Quiet(s) ==
    \A i \in Calls :
        csh[i] = s => cpc[i] \in {"idle", "returned"} /\ ~Alive(i)

\* C30: on a fine-tunable shutter, whenever no operate call is in progress and
\* no motion task is alive, a stored percent strictly between 0 and 100
\* implies that the last command sent to the shutter is STOP.
C30_StoppedWhenIntermediate ==
    \A s \in FineTunable :
        Quiet(s) /\ percent[s] \in 1..99 => lastCmd[s] = STOP

\* operate(shutter, HALF) with the default target of call i, with no other
\* motion task of the shutter alive and no later call, has completed
HalfCompleted(i) ==
    /\ Sole(i)
    /\ cst[i] = HALF
    /\ ctg[i] = None
    /\ cpc[i] = "returned"
    /\ tpc[i] = Done

\* C31, first part: every position-state write by a motion task sets the
\* commanded state as a function of the written percent: OPEN at 0, CLOSE at
\* 100, HALF at the halfway percent (when it is not 0), STOP otherwise.
C31_WritesFollowPercent ==
    [][\A i \in Calls :
          writes'[i] # writes[i] =>
              LET p == percent'[csh[i]]
              IN  state'[csh[i]] =
                      IF p = 0 THEN OPEN
                      ELSE IF p = 100 THEN CLOSE
                      ELSE IF p = get_halfway_percent(csh[i]) THEN HALF
                      ELSE STOP]_vars

\* C31: every position-state write by a motion task sets the commanded state
\* as a function of the written percent, so after an uninterrupted
\* operate(shutter, HALF) with the default target has completed,
\* get_current_state is HALF (OPEN when the halfway percent is 0).
C31_HalfCallEndsHalf ==
    \A i \in Calls :
        HalfCompleted(i) =>
            get_current_state(csh[i]) =
                IF get_halfway_percent(csh[i]) = 0 THEN OPEN ELSE HALF

\* operate() call i is between taking its shutter's lock and returning
InCall(i) == cpc[i] \notin {"idle", "returned"}

\* the shutter locks held by the holder h of a lock
HeldBy(h) == {s \in Shutters : lock[s] = h}

\* a step of the calling thread of an operate() in progress or of a motion thread
ThreadStep == \E i \in Calls : SyncStep(i) \/ OperateReturn(i) \/ TaskStep(i)

\* C32: no reachable state is a deadlock among operate calls and motion
\* tasks: the command lock is acquired only by a thread holding at most one
\* shutter lock, no shutter lock is acquired by the holder of the command
\* lock, while a call or a task is unfinished some thread can take a step,
\* once none is left every lock is free, and under fair scheduling every
\* operate call in progress returns and every lock held is released.
C32_NoDeadlock ==
    /\ [](cmdLock # Free => Cardinality(HeldBy(cmdLock)) <= 1)
    /\ [][\A s \in Shutters :
              lock'[s] # lock[s] /\ lock'[s] # Free => cmdLock # lock'[s]]_vars
    /\ []((\E i \in Calls : InCall(i) \/ Alive(i)) => ENABLED ThreadStep)
    /\ []((\A i \in Calls : ~InCall(i) /\ ~Alive(i)) =>
              cmdLock = Free /\ \A s \in Shutters : lock[s] = Free)
    /\ \A i \in Calls : InCall(i) ~> cpc[i] = "returned"
    /\ \A s \in Shutters : (lock[s] # Free) ~> (lock[s] = Free)
    /\ (cmdLock # Free) ~> (cmdLock = Free)

\* an operate call holding its shutter's lock waits for the command lock,
\* which the motion thread of another shutter's call holds
C32_Witness ==
    \E i, j \in Calls :
        /\ i # j
        /\ cpc[i] = "sync_cmd"
        /\ lock[csh[i]] = OpHolder(i)
        /\ cmdLock = TaskHolder(j)
        /\ lock[csh[j]] = TaskHolder(j)

\* a later operate call has installed a new token for the shutter of task i
Superseded(i) == csh[i] \in Shutters /\ tokens[csh[i]] # tok[i]

\* C33: every motion task terminates, whether or not it is superseded, for
\* every target and every starting percent in 0..100 or unknown: it ends at
\* most one bootstrap wait and at most 100 incremental steps, and once started
\* it eventually ends.
C33_TaskTerminates ==
    /\ [](\A i \in Calls : waits[i].boot <= 1 /\ waits[i].step <= 100)
    /\ \A i \in Calls : Alive(i) ~> Ended(i)

\* a superseded motion task has ended after 100 incremental steps
C33_Witness ==
    \E i \in Calls :
        /\ Ended(i)
        /\ Superseded(i)
        /\ waits[i].step = 100

\* the step is a call of the method op of the EventHandler
EventCall(op) == ev'.n # ev.n /\ ev'.last.op = op

\* C34: after EventHandler.unsubscribe(cb) for a subscribed callback cb, later
\* dispatch calls no longer invoke cb while every other subscribed callback
\* is still invoked once per subscription and dispatch; unsubscribe of a
\* callback that is not subscribed changes nothing; unsubscribe raises no
\* error.
C34_UnsubscribeRemoves ==
    [][/\ EventCall("unsubscribe") =>
              /\ ev'.last.outcome = "ok"
              /\ ev'.last.cb \notin Range(ev.callbacks) =>
                     ev'.callbacks = ev.callbacks
       /\ EventCall("dispatch") =>
              \A cb \in Callbacks : ev'.started[cb] = ev.subs[cb]]_vars

====
